---- MODULE Spec2Model ----
(***************************************************************************)
(* Model of gdsync.py: the per-pair conflict check (rclone check, the      *)
(* local-only and remote-only resolvers), the marker file and the two      *)
(* transfers run for every directory of a batch.                           *)
(*                                                                         *)
(* Paths are sequences of one-character strings, so that the regular       *)
(* expression and the len() sort key of rm_empty_folders are computed on   *)
(* the characters.  rclone is an external tool: what `rclone check`        *)
(* writes is drawn nondeterministically.                                   *)
(***************************************************************************)
EXTENDS Integers, Sequences, FiniteSets, TLC

(* ---------------- bounds ---------------- *)
\* number of directories one invocation processes (all run() calls together)
MaxPairs == 2
\* modification times of local files range over 1..MaxMtime
MaxMtime == 3
\* the time at which this invocation runs: later than every file time
Now == MaxMtime + 1

(* ---------------- configuration ---------------- *)
\* the keys of syncdirs the model keeps: two two-way pairs, one backup pair
BACKUP_ONLY == {"local_dots"}
syncdirs == {"vault", "bin", "local_dots"}
TwoWay == syncdirs \ BACKUP_ONLY

(* ---------------- paths ---------------- *)
F_abc == <<"a", "/", "b", "/", "c">>
F_abd == <<"a", "/", "b", "/", "d">>
F_ae == <<"a", "/", "e">>
F_gh == <<"g", "/", "h">>
Files == {F_abc, F_abd, F_ae, F_gh}

\* os.path semantics: the directories that contain path p, the root excluded
Ancestors(p) == {SubSeq(p, 1, k - 1) : k \in {i \in 2..Len(p) : p[i] = "/"}}
AncestorsOf(S) == UNION {Ancestors(p) : p \in S}

\* e is a directory entry of directory d (what os.listdir(d) names)
IsEntryOf(e, d) ==
  /\ Len(e) > Len(d) + 1
  /\ SubSeq(e, 1, Len(d)) = d
  /\ e[Len(d) + 1] = "/"
  /\ \A i \in (Len(d) + 2)..Len(e) : e[i] # "/"

listdir(files, dirs, d) == {e \in files \cup dirs : IsEntryOf(e, d)}

\* the local trees a two-way directory may hold when the program starts:
\* files with their modification times; every ancestor directory exists
InitTrees ==
  { [files |-> {F_abc}, mt |-> [f \in Files |-> 1]],
    [files |-> {F_abc, F_abd, F_ae},
     mt |-> [f \in Files |-> IF f = F_abc THEN 1 ELSE IF f = F_abd THEN 2 ELSE MaxMtime]],
    [files |-> {F_abc, F_gh}, mt |-> [f \in Files |-> IF f = F_gh THEN 1 ELSE 2]] }

(* ---------------- user input ---------------- *)
Responses == {"y", "n", "a", "q", "c", "", "x", "Y", "N", "A", "Q", "C"}

\* str.lower() on the responses
lower(r) ==
  CASE r = "Y" -> "y"
    [] r = "N" -> "n"
    [] r = "A" -> "a"
    [] r = "Q" -> "q"
    [] r = "C" -> "c"
    [] OTHER -> r

VARIABLES
  cfg,              \* run_cfg: [dryrun, sync], shared by every run() call
  pc,               \* position of the program
  status,           \* "running", "done", "sysexit" or "crashed"
  n,                \* number of directories the loops have started
  cur,              \* dirtosync
  tstamp,           \* marker files: modification time, 0 when absent
  lfiles,           \* files under each two-way local directory
  ldirs,            \* directories under each two-way local directory
  fmtime,           \* modification time of the local files
  only_local_file,  \* ~/tmp/onlylocal.txt: [exists, lines]
  only_remote_file, \* ~/tmp/onlyremote.txt: [exists, lines]
  oldfiles,         \* the stale list of handle_only_local_files
  startSync,        \* history: cfg.sync as constructed
  hist,             \* history of the current directory, reset when the next starts
  fin,              \* arguments of the pure function under study (FilterSpec, CmdSpec)
  fout              \* its results

vars == <<cfg, pc, status, n, cur, tstamp, lfiles, ldirs, fmtime,
          only_local_file, only_remote_file, oldfiles, startSync, hist,
          fin, fout>>

Absent == [exists |-> FALSE, lines |-> {}]
Written(L) == [exists |-> TRUE, lines |-> L]

\* os.path.exists(f) and os.path.getsize(f), as the resolvers test them
EntryKind(f) == IF ~f.exists THEN "missing" ELSE IF f.lines = {} THEN "empty" ELSE "nonempty"

\* os.path.getsize(f) == 0
IsEmptyFile(f) == f.exists /\ f.lines = {}

NoHist ==
  [ syncAtStart |-> TRUE,   \* cfg.sync when the directory started
    marker0 |-> 0,          \* marker time when the directory started (0: no marker)
    files0 |-> {},          \* local files when the directory started
    dirs0 |-> {},           \* local directories when the directory started
    scanned |-> FALSE,      \* rclone check was run
    scanRemote |-> "none",  \* remote-only list rclone check wrote ("failed": none written)
    scanLocal |-> "none",   \* onlylocal.txt after rclone check: missing/empty/nonempty
    scanRemoteFile |-> "none", \* onlyremote.txt after rclone check: missing/empty/nonempty
    localLines |-> {},      \* lines of onlylocal.txt read for the stale classification
    localEntry |-> "none",  \* onlylocal.txt when its resolver was called
    localRet |-> "none",    \* "true"/"false" once the local-only resolver returned
    remoteEntry |-> "none", \* onlyremote.txt when its resolver was called
    remoteRet |-> "none",   \* "true"/"false" once the remote-only resolver returned
    prompted |-> {},        \* resolvers that called input()
    localInput |-> "none",  \* last text typed at the local-only prompt
    remoteInput |-> "none", \* last text typed at the remote-only prompt
    localRsp |-> "none",    \* response that left the local-only prompt loop
    remoteRsp |-> "none",   \* response that left the remote-only prompt loop
    stale |-> {},           \* oldfiles as computed
    synctime |-> 0,         \* marker time read by the local-only resolver
    deleted |-> {},         \* local files removed
    examined |-> <<>>,      \* directories rm_empty_folders examined, in order
    removedDirs |-> {},     \* directories rm_empty_folders removed
    noop |-> FALSE,         \* the --dryrun notice was printed
    touched |-> FALSE,      \* the marker was written
    xfers |-> <<>> ]        \* transfers run: [upload, op, sync, marked]

Init ==
  /\ cfg \in [dryrun : BOOLEAN, sync : BOOLEAN]
  /\ startSync = cfg.sync
  /\ pc = "loop"
  /\ status = "running"
  /\ n = 0
  /\ cur = "none"
  /\ tstamp \in {t \in [syncdirs -> {0, 2}] : \A d \in BACKUP_ONLY : t[d] = 0}
  /\ \E tr \in [TwoWay -> InitTrees] :
       /\ lfiles = [d \in TwoWay |-> tr[d].files]
       /\ ldirs = [d \in TwoWay |-> AncestorsOf(tr[d].files)]
       /\ fmtime = [d \in TwoWay |-> tr[d].mt]
  /\ only_local_file = Absent
  /\ only_remote_file = Absent
  /\ oldfiles = {}
  /\ hist = NoHist
  /\ fin = <<>>
  /\ fout = <<>>

(* ---------------- pure helpers of the code ---------------- *)
\* variant: copy mode does not skip the conflict check
conflicts_check_exempt_backup_only(d, sync) == d \in BACKUP_ONLY

\* conflicts_check_is_ok: the pairs that skip check_for_files_not_on_both
conflicts_check_exempt(d, sync) == d \in BACKUP_ONLY \/ ~sync

\* variant: a file as old as the marker counts as stale
IsStale_le(ftime, synctime) == ftime <= synctime

\* handle_only_local_files: `if ftime < synctime`
IsStale(ftime, synctime) == ftime < synctime

\* variant: "c" also leaves the local-only prompt loop
LocalValid_with_c == {"y", "n", "a", "q", "", "c"}

\* the responses that leave the prompt loops
LocalValid == {"y", "n", "a", "q", ""}
RemoteValid == {"y", "n", "q", "c", ""}

\* variant: "a" lets the pair go on
LocalDecision_a_continues(rsp) ==
  CASE lower(rsp) = "q" -> "exit"
    [] lower(rsp) \in {"n", "a"} -> "keep"
    [] OTHER -> "delete"

\* variant: "n" falls into the delete branch
LocalDecision_n_deletes(rsp) ==
  CASE lower(rsp) = "a" -> "abort_pair"
    [] lower(rsp) = "q" -> "exit"
    [] OTHER -> "delete"

\* variant: "q" only aborts the pair
LocalDecision_q_aborts_pair(rsp) ==
  CASE lower(rsp) \in {"a", "q"} -> "abort_pair"
    [] lower(rsp) = "n" -> "keep"
    [] OTHER -> "delete"

\* the match statement of handle_only_local_files
LocalDecision(rsp) ==
  CASE lower(rsp) = "a" -> "abort_pair"
    [] lower(rsp) = "q" -> "exit"
    [] lower(rsp) = "n" -> "keep"
    [] OTHER -> "delete"

\* variant: the default branch proceeds without switching to copy
RemoteDecision_default_proceeds(rsp) ==
  CASE lower(rsp) = "n" -> "abort_pair"
    [] lower(rsp) = "q" -> "exit"
    [] OTHER -> "proceed"

\* the match statement of handle_only_remote_files
RemoteDecision(rsp) ==
  CASE lower(rsp) = "y" -> "proceed"
    [] lower(rsp) = "n" -> "abort_pair"
    [] lower(rsp) = "q" -> "exit"
    [] OTHER -> "copy"

\* variant: the "n" branch returns before os.remove
RemoteFileAfter_kept_on_abort(decision, f) ==
  IF decision \in {"exit", "abort_pair"} THEN f ELSE Absent

\* variant: --dryrun is ignored by the delete branch
SkipsRemoval_never(dryrun) == FALSE

\* handle_only_local_files: `if cfg.dryrun` in the delete branch
SkipsRemoval(dryrun) == dryrun

\* variant: the marker is written under --dryrun too
TouchesMarker_always(dryrun) == TRUE

\* run: `if not cfg.dryrun` before the marker is written
TouchesMarker(dryrun) == ~dryrun

\* variant: the mirror operation whatever the direction
copy_cmd_any_direction(sync, upload) == IF sync THEN "sync" ELSE "copy"

\* rclone: the destination files a transfer may delete.  copy never deletes;
\* sync (mirror) deletes the destination files absent from the source.
MayDelete(op, destfiles) == IF op = "sync" THEN SUBSET destfiles ELSE {{}}

\* handle_only_remote_files: the file after the decision (os.remove is the
\* statement after the match; sys.exit leaves the match without reaching it)
RemoteFileAfter(decision, f) == IF decision = "exit" THEN f ELSE Absent

\* variant: every upload mirrors
copy_cmd_always_sync(sync, upload) == IF upload THEN "sync" ELSE "copy"

\* run_rclone: copy_cmd
copy_cmd(sync, upload) == IF sync /\ upload THEN "sync" ELSE "copy"

\* variant: the download transfer runs for every pair
HasDownload_always(d) == TRUE

\* run: the download transfer follows the upload unless the pair is backup-only
HasDownload(d) == d \notin BACKUP_ONLY

\* re.search("(.+)/[^/]+", f).group(1): leftmost start, then the longest
\* group; <<>> stands for no match (group(1) itself is never empty)
RegexDir(f) ==
  LET M == {sk \in (1..Len(f)) \X (1..Len(f)) :
              /\ sk[1] < sk[2]
              /\ f[sk[2]] = "/"
              /\ sk[2] < Len(f)
              /\ f[sk[2] + 1] # "/"}
  IN IF M = {} THEN <<>>
     ELSE LET s == CHOOSE x \in {m[1] : m \in M} : \A m \in M : x <= m[1]
              k == CHOOSE x \in {m[2] : m \in M} :
                     /\ <<s, x>> \in M
                     /\ \A m \in M : m[1] = s => m[2] <= x
          IN SubSeq(f, s, k - 1)

HasSlash(f) == \E i \in 1..Len(f) : f[i] = "/"

\* rm_empty_folders: the inner while loop for one file; <<>> in the result
\* stands for the AttributeError of a failed match
RECURSIVE DirsOfFile(_)
DirsOfFile(f) ==
  IF ~HasSlash(f) THEN {}
  ELSE LET d == RegexDir(f)
       IN IF d = <<>> THEN {<<>>} ELSE {d} \cup DirsOfFile(d)

\* rm_empty_folders: the set dirs
DirsOf(old) == UNION {DirsOfFile(f) : f \in old}

\* variant: reverse=False
LenOrder_ascending(a, b) == Len(a) <= Len(b)

\* sorted(list(dirs), key=len, reverse=True): the set is iterated in an
\* unspecified order and the sort is stable, so ties come in any order
LenOrder(a, b) == Len(a) >= Len(b)

Ordered(dirs) ==
  {s \in [1..Cardinality(dirs) -> dirs] :
     /\ \A i, j \in DOMAIN s : i # j => s[i] # s[j]
     /\ \A i, j \in DOMAIN s : i < j => LenOrder(s[i], s[j])}

\* rm_empty_folders: the for loop; the directories left after examining
\* ordered[i..]
RECURSIVE RmLoop(_, _, _, _)
RmLoop(files, dirs, ordered, i) ==
  IF i > Len(ordered) THEN dirs
  ELSE IF listdir(files, dirs, ordered[i]) = {}
       THEN RmLoop(files, dirs \ {ordered[i]}, ordered, i + 1)
       ELSE RmLoop(files, dirs, ordered, i + 1)

(* ---------------- run: the loop over the directories ---------------- *)
\* `for dirtosync in dirs` over every run() call, and conflicts_check_is_ok.
\* The batch is an input: its next element is drawn when the loop reaches it.
StartPair ==
  /\ status = "running" /\ pc = "loop" /\ n < MaxPairs
  /\ \E d \in syncdirs :
       /\ cur' = d
       /\ pc' = IF conflicts_check_exempt(d, cfg.sync) THEN "touch" ELSE "scan"
  /\ n' = n + 1
  /\ hist' = [NoHist EXCEPT !.syncAtStart = cfg.sync,
                            !.marker0 = tstamp[cur'],
                            !.files0 = IF cur' \in TwoWay THEN lfiles[cur'] ELSE {},
                            !.dirs0 = IF cur' \in TwoWay THEN ldirs[cur'] ELSE {}]
  /\ oldfiles' = {}
  /\ UNCHANGED <<cfg, status, tstamp, lfiles, ldirs, fmtime, fin, fout,
                 only_local_file, only_remote_file, startSync>>

\* the last run() call returns and the module ends: exit status 0
Finish ==
  /\ status = "running" /\ pc = "loop" /\ n >= 1
  /\ status' = "done" /\ pc' = "exit"
  /\ UNCHANGED <<cfg, n, cur, tstamp, lfiles, ldirs, fmtime, fin, fout,
                 only_local_file, only_remote_file, oldfiles, startSync, hist>>

\* check_for_files_not_on_both: rclone check.  Either it writes both list
\* files (local-only paths are files of the local tree) or it fails before
\* opening them and they stay as they were.
RemoteOnlyLists == {{}, {<<"r">>}}

Scan ==
  /\ status = "running" /\ pc = "scan"
  /\ \/ \E L \in SUBSET lfiles[cur], R \in RemoteOnlyLists :
          /\ only_local_file' = Written(L)
          /\ only_remote_file' = Written(R)
          /\ hist' = [hist EXCEPT !.scanned = TRUE,
                                  !.scanRemote = IF R = {} THEN "empty" ELSE "nonempty",
                                  !.scanLocal = EntryKind(Written(L)),
                                  !.scanRemoteFile = EntryKind(Written(R))]
     \/ /\ UNCHANGED <<only_local_file, only_remote_file>>
        /\ hist' = [hist EXCEPT !.scanned = TRUE, !.scanRemote = "failed",
                                !.scanLocal = EntryKind(only_local_file),
                                !.scanRemoteFile = EntryKind(only_remote_file)]
  /\ pc' = "local"
  /\ UNCHANGED <<cfg, status, n, cur, tstamp, lfiles, ldirs, fmtime, fin, fout,
                 oldfiles, startSync>>

(* ---------------- handle_only_local_files ---------------- *)
Crash(h) ==
  /\ status' = "crashed" /\ pc' = "exit"
  /\ hist' = h

\* from the call to the first input() or to the return
HandleOnlyLocalFiles ==
  /\ status = "running" /\ pc = "local"
  /\ LET f == only_local_file
         h == [hist EXCEPT !.localEntry = EntryKind(f)]
     IN IF ~f.exists \/ IsEmptyFile(f)
        THEN \* os.remove(only_local_file); return True
             IF ~f.exists
             THEN /\ Crash(h)
                  /\ UNCHANGED <<only_local_file, oldfiles>>
             ELSE /\ only_local_file' = Absent
                  /\ pc' = "remote"
                  /\ hist' = [h EXCEPT !.localRet = "true"]
                  /\ UNCHANGED <<status, oldfiles>>
        ELSE IF tstamp[cur] = 0
        THEN \* no marker: oldfiles stays empty, the list file is kept
             /\ pc' = "remote"
             /\ hist' = [h EXCEPT !.localRet = "true"]
             /\ UNCHANGED <<status, only_local_file, oldfiles>>
        ELSE IF \E fname \in f.lines : fname \notin lfiles[cur]
        THEN \* os.stat raises FileNotFoundError
             /\ Crash([h EXCEPT !.synctime = tstamp[cur]])
             /\ UNCHANGED <<only_local_file, oldfiles>>
        ELSE LET old == {fname \in f.lines : IsStale(fmtime[cur][fname], tstamp[cur])}
                 h2 == [h EXCEPT !.synctime = tstamp[cur], !.stale = old,
                                 !.localLines = f.lines]
             IN /\ only_local_file' = Absent
                /\ oldfiles' = old
                /\ UNCHANGED status
                /\ IF old = {}
                   THEN /\ pc' = "remote"
                        /\ hist' = [h2 EXCEPT !.localRet = "true"]
                   ELSE /\ pc' = "local_prompt"
                        /\ hist' = [h2 EXCEPT !.prompted = @ \cup {"local"}]
  /\ UNCHANGED <<cfg, n, cur, tstamp, lfiles, ldirs, fmtime, fin, fout,
                 only_remote_file, startSync>>

\* one answer to "Remove these local files before proceeding?"
LocalPrompt ==
  /\ status = "running" /\ pc = "local_prompt"
  /\ \E rsp \in Responses :
       IF lower(rsp) \notin LocalValid
       THEN /\ hist' = [hist EXCEPT !.localInput = rsp]
            /\ UNCHANGED <<pc, status, lfiles, ldirs>>
       ELSE LET h == [hist EXCEPT !.localRsp = rsp, !.localInput = rsp]
                dec == LocalDecision(rsp)
            IN CASE dec = "abort_pair" ->
                      /\ pc' = "loop"
                      /\ hist' = [h EXCEPT !.localRet = "false"]
                      /\ UNCHANGED <<status, lfiles, ldirs>>
                 [] dec = "exit" ->
                      /\ status' = "sysexit" /\ pc' = "exit"
                      /\ hist' = h
                      /\ UNCHANGED <<lfiles, ldirs>>
                 [] dec = "keep" ->
                      /\ pc' = "remote"
                      /\ hist' = [h EXCEPT !.localRet = "true"]
                      /\ UNCHANGED <<status, lfiles, ldirs>>
                 [] OTHER ->
                      IF SkipsRemoval(cfg.dryrun)
                      THEN /\ pc' = "remote"
                           /\ hist' = [h EXCEPT !.noop = TRUE, !.localRet = "true"]
                           /\ UNCHANGED <<status, lfiles, ldirs>>
                      ELSE \* /bin/rm -rfdv oldfiles, then rm_empty_folders
                           LET files == lfiles[cur] \ oldfiles
                               dirs == DirsOf(oldfiles)
                               h2 == [h EXCEPT !.deleted = oldfiles]
                           IN /\ lfiles' = [lfiles EXCEPT ![cur] = files]
                              /\ IF <<>> \in dirs
                                 THEN /\ Crash(h2)
                                      /\ UNCHANGED ldirs
                                 ELSE \E ordered \in Ordered(dirs) :
                                        LET left == RmLoop(files, ldirs[cur], ordered, 1)
                                        IN /\ ldirs' = [ldirs EXCEPT ![cur] = left]
                                           /\ hist' = [h2 EXCEPT !.examined = ordered,
                                                                 !.removedDirs = ldirs[cur] \ left]
                                           /\ pc' = "local_ack"
                                           /\ UNCHANGED status
  /\ UNCHANGED <<cfg, n, cur, tstamp, fmtime, fin, fout, only_local_file,
                 only_remote_file, oldfiles, startSync>>

\* input("Hit return to continue: "): whatever is typed, the resolver returns
LocalAck ==
  /\ status = "running" /\ pc = "local_ack"
  /\ \E rsp \in Responses : pc' = "remote"
  /\ hist' = [hist EXCEPT !.localRet = "true"]
  /\ UNCHANGED <<cfg, status, n, cur, tstamp, lfiles, ldirs, fmtime, fin, fout,
                 only_local_file, only_remote_file, oldfiles, startSync>>

(* ---------------- handle_only_remote_files ---------------- *)
HandleOnlyRemoteFiles ==
  /\ status = "running" /\ pc = "remote"
  /\ LET f == only_remote_file
         h == [hist EXCEPT !.remoteEntry = EntryKind(f)]
     IN IF ~f.exists \/ IsEmptyFile(f)
        THEN /\ pc' = "touch"
             /\ hist' = [h EXCEPT !.remoteRet = "true"]
        ELSE /\ pc' = "remote_prompt"
             /\ hist' = [h EXCEPT !.prompted = @ \cup {"remote"}]
  /\ UNCHANGED <<cfg, status, n, cur, tstamp, lfiles, ldirs, fmtime, fin, fout,
                 only_local_file, only_remote_file, oldfiles, startSync>>

\* one answer to "Proceed with sync?"
RemotePrompt ==
  /\ status = "running" /\ pc = "remote_prompt"
  /\ \E rsp \in Responses :
       IF lower(rsp) \notin RemoteValid
       THEN /\ hist' = [hist EXCEPT !.remoteInput = rsp]
            /\ UNCHANGED <<pc, status, cfg, only_remote_file>>
       ELSE LET h == [hist EXCEPT !.remoteRsp = rsp, !.remoteInput = rsp]
                dec == RemoteDecision(rsp)
            IN /\ only_remote_file' = RemoteFileAfter(dec, only_remote_file)
               /\ CASE dec = "proceed" ->
                         /\ pc' = "touch"
                         /\ hist' = [h EXCEPT !.remoteRet = "true"]
                         /\ UNCHANGED <<status, cfg>>
                    [] dec = "abort_pair" ->
                         /\ pc' = "loop"
                         /\ hist' = [h EXCEPT !.remoteRet = "false"]
                         /\ UNCHANGED <<status, cfg>>
                    [] dec = "exit" ->
                         /\ status' = "sysexit" /\ pc' = "exit"
                         /\ hist' = h
                         /\ UNCHANGED cfg
                    [] OTHER ->
                         /\ cfg' = [cfg EXCEPT !.sync = FALSE]
                         /\ pc' = "touch"
                         /\ hist' = [h EXCEPT !.remoteRet = "true"]
                         /\ UNCHANGED status
  /\ UNCHANGED <<n, cur, tstamp, lfiles, ldirs, fmtime, fin, fout, only_local_file,
                 oldfiles, startSync>>

(* ---------------- run: marker and transfers ---------------- *)
\* open(tstamp_file, "w").close() unless --dryrun
Touch ==
  /\ status = "running" /\ pc = "touch"
  /\ IF ~TouchesMarker(cfg.dryrun)
     THEN UNCHANGED <<tstamp, hist>>
     ELSE /\ tstamp' = [tstamp EXCEPT ![cur] = Now]
          /\ hist' = [hist EXCEPT !.touched = TRUE]
  /\ pc' = "upload"
  /\ UNCHANGED <<cfg, status, n, cur, lfiles, ldirs, fmtime, fin, fout,
                 only_local_file, only_remote_file, oldfiles, startSync>>

Xfer(upload) ==
  [upload |-> upload, op |-> copy_cmd(cfg.sync, upload),
   sync |-> cfg.sync, marked |-> hist.touched]

\* run_rclone(local, remote, True, cfg)
Upload ==
  /\ status = "running" /\ pc = "upload"
  /\ hist' = [hist EXCEPT !.xfers = Append(@, Xfer(TRUE))]
  /\ pc' = IF HasDownload(cur) THEN "download" ELSE "loop"
  /\ UNCHANGED <<cfg, status, n, cur, tstamp, lfiles, ldirs, fmtime, fin, fout,
                 only_local_file, only_remote_file, oldfiles, startSync>>

\* run_rclone(remote, local, False, cfg)
Download ==
  /\ status = "running" /\ pc = "download"
  /\ hist' = [hist EXCEPT !.xfers = Append(@, Xfer(FALSE))]
  /\ \E D \in MayDelete(Xfer(FALSE).op, lfiles[cur]) :
       lfiles' = [lfiles EXCEPT ![cur] = @ \ D]
  /\ pc' = "loop"
  /\ UNCHANGED <<cfg, status, n, cur, tstamp, ldirs, fmtime, fin, fout,
                 only_local_file, only_remote_file, oldfiles, startSync>>

Next ==
  \/ StartPair
  \/ Finish
  \/ Scan
  \/ HandleOnlyLocalFiles
  \/ LocalPrompt
  \/ LocalAck
  \/ HandleOnlyRemoteFiles
  \/ RemotePrompt
  \/ Touch
  \/ Upload
  \/ Download

Spec == Init /\ [][Next]_vars

\* sys.exit(str) and an uncaught exception both end the process with status 1
ExitCode == IF status = "done" THEN 0 ELSE IF status = "running" THEN -1 ELSE 1

(* ---------------- the two pure functions ---------------- *)
\* the program state while a pure function is studied on its own
Parked ==
  /\ cfg = [dryrun |-> FALSE, sync |-> TRUE]
  /\ startSync = TRUE
  /\ pc = "pure" /\ status = "running" /\ n = 0 /\ cur = "none"
  /\ tstamp = [d \in syncdirs |-> 0]
  /\ lfiles = [d \in TwoWay |-> {}]
  /\ ldirs = [d \in TwoWay |-> {}]
  /\ fmtime = [d \in TwoWay |-> [f \in Files |-> 1]]
  /\ only_local_file = Absent /\ only_remote_file = Absent
  /\ oldfiles = {}
  /\ hist = NoHist

progVars == <<cfg, pc, status, n, cur, tstamp, lfiles, ldirs, fmtime,
              only_local_file, only_remote_file, oldfiles, startSync, hist>>

(* ---------------- is_ignored_line ---------------- *)
\* A line of rclone output is a sequence of chunks: a phrase the patterns
\* look for (in some letter case), a blank, the newline, or other text.
MaxLineLen == 3
Chunks == {"INFO", ":", " ", "\n", "Elapsed time:", "matching FILES",
           "Transferred:", "files missing", "ERROR", "file not in", "x"}

\* what `for b in proc.stdout` yields: not empty, a newline only at the end
OutputLines ==
  UNION {{l \in [1..k -> Chunks] : \A i \in 1..(k - 1) : l[i] # "\n"} :
         k \in 1..MaxLineLen}

\* flags=re.IGNORECASE, on the chunks
lowerChunk(c) ==
  CASE c = "INFO" -> "info"
    [] c = "Elapsed time:" -> "elapsed time:"
    [] c = "matching FILES" -> "matching files"
    [] c = "Transferred:" -> "transferred:"
    [] c = "ERROR" -> "error"
    [] OTHER -> c

\* pattern items
Lit(S) == [kind |-> "lit", toks |-> S]
Bol == [kind |-> "^", toks |-> {}]
Eol == [kind |-> "$", toks |-> {}]
Ws == [kind |-> "ws", toks |-> {}]
WsStar == [kind |-> "ws*", toks |-> {}]
AnyStar == [kind |-> "any*", toks |-> {}]
IsSpace(c) == c \in {" ", "\n"}

\* the first list of is_ignored_line
GenericPatterns ==
  << <<Lit({"there was nothing to transfer"})>>,
     <<Lit({"cryptomator/ipc.socket"})>>,
     <<Lit({"matching files"})>>,
     <<Lit({"info"}), WsStar, Lit({":"}), WsStar, Eol>>,
     <<Bol, Lit({"elapsed time:"})>>,
     <<Bol, Ws, Eol>> >>

\* the list tried when mode == "check"
CheckPatterns ==
  << <<Lit({"errors while checking"})>>,
     <<Lit({"info"}), WsStar, Lit({":"}), WsStar, Eol>>,
     <<Bol, Lit({"transferred:"})>>,
     <<Bol, Lit({"errors:"})>>,
     <<Bol, Lit({"checks:"})>>,
     <<Lit({"file missing", "files missing"}), Eol>>,
     <<Lit({"differences found"}), Eol>>,
     <<Lit({"sizes differ"})>>,
     <<Lit({"error"}), WsStar, Lit({":"}), AnyStar, Lit({"file not in"})>>,
     <<Lit({"error"}), WsStar, Lit({":"}), AnyStar, Lit({"md5 differ"})>>,
     <<Lit({"using md5 for hash comparisons"})>> >>

\* the items k.. of a pattern match the line from position i on
RECURSIVE MatchFrom(_, _, _, _)
MatchFrom(items, k, line, i) ==
  IF k > Len(items) THEN TRUE
  ELSE LET it == items[k]
       IN CASE it.kind = "lit" ->
                 /\ i <= Len(line)
                 /\ lowerChunk(line[i]) \in it.toks
                 /\ MatchFrom(items, k + 1, line, i + 1)
            [] it.kind = "ws" ->
                 /\ i <= Len(line)
                 /\ IsSpace(line[i])
                 /\ MatchFrom(items, k + 1, line, i + 1)
            [] it.kind = "ws*" ->
                 \E j \in i..(Len(line) + 1) :
                   /\ \A m \in i..(j - 1) : IsSpace(line[m])
                   /\ MatchFrom(items, k + 1, line, j)
            [] it.kind = "any*" ->
                 \E j \in i..(Len(line) + 1) :
                   /\ \A m \in i..(j - 1) : line[m] # "\n"
                   /\ MatchFrom(items, k + 1, line, j)
            [] it.kind = "^" ->
                 i = 1 /\ MatchFrom(items, k + 1, line, i)
            [] OTHER -> \* "$": the end, or just before a final newline
                 /\ (i = Len(line) + 1 \/ (i = Len(line) /\ line[i] = "\n"))
                 /\ MatchFrom(items, k + 1, line, i)

\* re.search(pattern, txt, flags=re.IGNORECASE)
re_search(items, line) == \E i \in 1..(Len(line) + 1) : MatchFrom(items, 1, line, i)

AnyMatches(patterns, line) == \E p \in DOMAIN patterns : re_search(patterns[p], line)

\* variant: in check mode only the second list is tried
is_ignored_line_check_list_only(txt, mode) ==
  IF mode = "check" THEN AnyMatches(CheckPatterns, txt)
  ELSE AnyMatches(GenericPatterns, txt)

is_ignored_line(txt, mode) ==
  IF AnyMatches(GenericPatterns, txt) THEN TRUE
  ELSE IF mode = "check" THEN AnyMatches(CheckPatterns, txt)
  ELSE FALSE

Verdict(b) == IF b THEN "ignored" ELSE "printed"

FilterInit ==
  /\ Parked
  /\ fin \in OutputLines
  /\ fout = [generic |-> "none", check |-> "none"]

\* run_rclone: is_ignored_line(s)
FilterGeneric ==
  /\ fout.generic = "none"
  /\ fout' = [fout EXCEPT !.generic = Verdict(is_ignored_line(fin, ""))]
  /\ UNCHANGED <<progVars, fin>>

\* check_for_files_not_on_both: is_ignored_line(s, "check")
FilterCheck ==
  /\ fout.check = "none"
  /\ fout' = [fout EXCEPT !.check = Verdict(is_ignored_line(fin, "check"))]
  /\ UNCHANGED <<progVars, fin>>

FilterNext ==
  \/ FilterGeneric
  \/ FilterCheck

FilterSpec == FilterInit /\ [][FilterNext]_vars

(* ---------------- run_rclone: the command ---------------- *)
\* src and dest are strings of the configuration: any characters
MaxPathLen == 2
PathChars == {"a", "/", "-", "u"}
Paths == UNION {[1..k -> PathChars] : k \in 1..MaxPathLen}

\* str.replace("-u", "-un"): every occurrence, left to right
RECURSIVE replace_u(_)
replace_u(str) ==
  IF Len(str) < 2 THEN str
  ELSE IF str[1] = "-" /\ str[2] = "u"
       THEN <<"-", "u", "n">> \o replace_u(SubSeq(str, 3, Len(str)))
       ELSE <<str[1]>> \o replace_u(Tail(str))

\* the f-string of run_rclone; the words that hold no "-u" are one element
rclone_cmd(src, dest, upload, sync, dryrun) ==
  LET plain == <<"rclone", " ", copy_cmd(sync, upload), " ", "-", "u", " ">>
               \o (IF upload THEN <<"-", "-", "delete", "-", "excluded", " ">> ELSE <<>>)
               \o src \o <<" ">> \o dest
  IN IF dryrun THEN replace_u(plain) ELSE plain

CmdInit ==
  /\ Parked
  /\ fin \in [src : Paths, dest : Paths, upload : BOOLEAN, sync : BOOLEAN]
  /\ fout = [plain |-> <<>>, dry |-> <<>>]

\* run_rclone without --dryrun
BuildCmd ==
  /\ fout.plain = <<>>
  /\ fout' = [fout EXCEPT !.plain = rclone_cmd(fin.src, fin.dest, fin.upload, fin.sync, FALSE)]
  /\ UNCHANGED <<progVars, fin>>

\* run_rclone with --dryrun
BuildDryCmd ==
  /\ fout.dry = <<>>
  /\ fout' = [fout EXCEPT !.dry = rclone_cmd(fin.src, fin.dest, fin.upload, fin.sync, TRUE)]
  /\ UNCHANGED <<progVars, fin>>

CmdNext ==
  \/ BuildCmd
  \/ BuildDryCmd

CmdSpec == CmdInit /\ [][CmdNext]_vars

(* ======================= properties ======================= *)
Range(q) == {q[i] : i \in DOMAIN q}
MirrorRun == \E i \in DOMAIN hist.xfers : hist.xfers[i].op = "sync"
\* path e lies below directory d
IsUnder(e, d) ==
  /\ Len(e) > Len(d) + 1
  /\ SubSeq(e, 1, Len(d)) = d
  /\ e[Len(d) + 1] = "/"
PairFinished == pc \in {"loop", "exit"} /\ status \in {"running", "done"}

\* C1: for a pair that is not backup-only whose scan wrote a non-empty
\* remote-only list, a mirror transfer has run only if the response that
\* left the remote-only prompt was "y" or "Y"; after any other deciding
\* response no mirror transfer has run for the pair.
C1_MirrorOnlyAfterYes ==
  (cur \notin BACKUP_ONLY /\ hist.scanRemote = "nonempty") =>
    /\ MirrorRun => lower(hist.remoteRsp) = "y"
    /\ (hist.remoteRsp # "none" /\ lower(hist.remoteRsp) # "y") => ~MirrorRun

W1_MirrorAfterYes ==
  /\ cur \notin BACKUP_ONLY /\ hist.scanRemote = "nonempty"
  /\ hist.remoteRsp = "Y"
  /\ MirrorRun

\* C2 (as claimed): every pair starts with syncMode equal to its value at
\* startup, whatever an earlier pair's remote-only resolver did.
C2_PairStartsWithStartupSync ==
  n >= 1 => hist.syncAtStart = startSync

\* C3 (as claimed): when the local-only resolver is called with the list
\* file empty or missing, it returns true without prompting and without
\* failing.
C3_EmptyOrMissingReturnsTrue ==
  hist.localEntry \in {"missing", "empty"} =>
    /\ status # "crashed"
    /\ hist.localRet = "true"
    /\ "local" \notin hist.prompted

\* C4: a file is in the stale list (and so can be deleted) only if the pair's
\* marker existed and the file's modification time is strictly older than
\* the marker's; when the list is non-empty and no marker exists the stale
\* list is empty and the resolver returns true with no prompt, no deletion.
C4_StaleOnlyOlderThanMarker ==
  /\ \A f \in oldfiles \cup hist.stale \cup hist.deleted :
       hist.marker0 > 0 /\ fmtime[cur][f] < hist.marker0
  /\ (hist.localEntry = "nonempty" /\ hist.marker0 = 0) =>
       /\ hist.stale = {} /\ oldfiles = {}
       /\ hist.localRet = "true"
       /\ "local" \notin hist.prompted
       /\ hist.deleted = {}
       /\ hist.files0 \subseteq lfiles[cur]

\* a list holding a stale file and a file exactly as old as the marker, the
\* user having chosen to delete
W4_EqualTimeNotStale ==
  /\ hist.stale # {}
  /\ \E f \in hist.localLines \ hist.stale : fmtime[cur][f] = hist.marker0
  /\ hist.deleted # {}

\* C5: with a non-empty stale list and the response "n" or "N", the
\* local-only resolver returns true, removes no file and no directory, and
\* the remote-only resolver is next.
C5_NoKeepsEverything ==
  (hist.stale # {} /\ lower(hist.localRsp) = "n") =>
    /\ hist.localRet = "true"
    /\ hist.deleted = {} /\ hist.removedDirs = {}
    /\ hist.files0 \subseteq lfiles[cur]
    /\ hist.dirs0 \subseteq ldirs[cur]
    /\ (pc = "remote" \/ hist.remoteEntry # "none")

W5_NoAnswered ==
  /\ hist.stale # {}
  /\ hist.localRsp = "N"
  /\ hist.remoteEntry # "none"
  /\ ~cfg.dryrun

QAnswered == lower(hist.localRsp) = "q" \/ lower(hist.remoteRsp) = "q"

\* C6: once "q" is answered at either resolver the process has ended with a
\* non-zero status, the pair's marker is not touched, no transfer has run
\* for the pair, and nothing happens afterwards.
C6_QuitEndsEverything ==
  /\ [](QAnswered =>
          /\ status = "sysexit" /\ ExitCode # 0
          /\ ~hist.touched /\ tstamp[cur] = hist.marker0
          /\ hist.xfers = <<>>)
  /\ [][QAnswered => UNCHANGED vars]_vars

W6_QuitBeforeLastPair ==
  /\ lower(hist.remoteRsp) = "q"
  /\ status = "sysexit"
  /\ n < MaxPairs

\* C7 (as claimed): every text other than y, n and q typed at the
\* remote-only prompt sets syncMode to false and makes the resolver return
\* true.
C7_AnyOtherInputDowngrades ==
  (hist.remoteInput # "none" /\ lower(hist.remoteInput) \notin {"y", "n", "q"}) =>
    /\ ~cfg.sync
    /\ hist.remoteRet = "true"

\* C7 (amended): "c" and the empty string (any case) set syncMode to false
\* and make the resolver return true; any text outside y, n, q, c and the
\* empty string changes nothing and the resolver prompts again.
C7_CopyOrEmptyDowngrades ==
  /\ lower(hist.remoteInput) \in {"c", ""} =>
       /\ ~cfg.sync
       /\ hist.remoteRet = "true"
  /\ (hist.remoteInput # "none"
      /\ lower(hist.remoteInput) \notin {"y", "n", "q", "c", ""}) =>
       /\ pc = "remote_prompt"
       /\ hist.remoteRet = "none"
       /\ cfg.sync

W7_Downgraded ==
  /\ hist.remoteInput = "C"
  /\ hist.syncAtStart /\ ~cfg.sync
  /\ hist.remoteRet = "true"

\* C8 (as claimed): once the remote-only resolver has prompted and finished,
\* by returning or by ending the process, the list file no longer exists.
C8_ListFileAlwaysDeleted ==
  ("remote" \in hist.prompted /\ hist.remoteRsp # "none") =>
    ~only_remote_file.exists

\* C8 (amended): once the remote-only resolver has prompted and returned
\* (y, n or downgrade to copy) the list file no longer exists; on "q" the
\* process ends and the file is left in place.
C8_ListFileDeletedOnReturn ==
  /\ ("remote" \in hist.prompted /\ hist.remoteRet # "none") =>
       ~only_remote_file.exists
  /\ lower(hist.remoteRsp) = "q" =>
       /\ status = "sysexit"
       /\ only_remote_file.exists

W8_DeletedAfterNo ==
  /\ "remote" \in hist.prompted
  /\ hist.remoteRsp = "n" /\ hist.remoteRet = "false"
  /\ ~only_remote_file.exists

\* C9: right after the cleanup that follows a deletion, the directories
\* examined are exactly the ancestors of the deleted files, each once, no
\* directory before one of its descendants; an examined directory was
\* removed exactly when nothing was left in it, nothing else was removed,
\* and the root was neither examined nor removed.
C9_EmptyFolderCleanup ==
  (pc = "local_ack" /\ hist.deleted # {}) =>
    LET ex == hist.examined
    IN /\ Range(ex) = AncestorsOf(hist.deleted)
       /\ Cardinality(Range(ex)) = Len(ex)
       /\ \A i, j \in DOMAIN ex : i < j => ~IsUnder(ex[j], ex[i])
       /\ \A d \in Range(ex) :
            d \in hist.removedDirs <=>
              ~\E e \in lfiles[cur] \cup ldirs[cur] : IsUnder(e, d)
       /\ hist.removedDirs \subseteq Range(ex)
       /\ ldirs[cur] = hist.dirs0 \ hist.removedDirs
       /\ lfiles[cur] = hist.files0 \ hist.deleted
       /\ <<>> \notin Range(ex) \cup hist.removedDirs

\* a/b/c.txt deleted alone: a/b and then a are removed
W9_ChainRemoved ==
  /\ pc = "local_ack"
  /\ hist.deleted = {F_abc}
  /\ hist.examined = << <<"a", "/", "b">>, <<"a">> >>
  /\ hist.removedDirs = {<<"a", "/", "b">>, <<"a">>}

\* C10: for a backup-only pair rclone check and the resolvers are never run,
\* nothing is prompted, every transfer is an upload, and when the pair is
\* finished exactly one transfer has run.
C10_BackupOnlyUploadsOnce ==
  cur \in BACKUP_ONLY =>
    /\ ~hist.scanned
    /\ hist.localEntry = "none" /\ hist.remoteEntry = "none"
    /\ hist.prompted = {}
    /\ hist.localInput = "none" /\ hist.remoteInput = "none"
    /\ \A i \in DOMAIN hist.xfers : hist.xfers[i].upload
    /\ Len(hist.xfers) <= 1
    /\ PairFinished => Len(hist.xfers) = 1

W10_BackupOnlyDone ==
  /\ cur \in BACKUP_ONLY
  /\ cfg.sync
  /\ PairFinished
  /\ Len(hist.xfers) = 1

\* C11 (as claimed): for a two-way pair in sync mode whose list files are
\* both empty or absent after rclone check, the resolvers return true
\* without prompting, the marker is touched, and exactly two transfers run,
\* the upload first and the download second.
C11_NoDifferencesSyncsBothWays ==
  (/\ cur \in TwoWay /\ hist.syncAtStart /\ hist.scanned
   /\ hist.scanLocal \in {"missing", "empty"}
   /\ hist.scanRemoteFile \in {"missing", "empty"}) =>
    /\ status # "crashed"
    /\ hist.prompted = {}
    /\ hist.localEntry # "none" => hist.localRet = "true"
    /\ hist.remoteEntry # "none" => hist.remoteRet = "true"
    /\ \A i \in DOMAIN hist.xfers : hist.touched /\ hist.xfers[i].marked
    /\ PairFinished =>
         /\ hist.touched
         /\ Len(hist.xfers) = 2
         /\ hist.xfers[1].upload /\ ~hist.xfers[2].upload

\* C12: under --dryrun, with a non-empty stale list and the delete response
\* (y or empty, any case), the notice is printed, no file and no directory
\* under local is removed, and the resolver returns true.
C12_DryRunDeletesNothing ==
  (cfg.dryrun /\ hist.stale # {} /\ lower(hist.localRsp) \in {"y", ""}) =>
    /\ hist.noop
    /\ hist.deleted = {} /\ hist.removedDirs = {}
    /\ hist.files0 \subseteq lfiles[cur]
    /\ hist.dirs0 \subseteq ldirs[cur]
    /\ hist.localRet = "true"
    /\ status # "crashed"

W12_DryRunDefaultAnswer ==
  /\ cfg.dryrun
  /\ hist.stale # {}
  /\ hist.localRsp = ""
  /\ hist.noop
  /\ hist.localRet = "true"

\* C13: when the local-only resolver returns false ("a") the remote-only
\* resolver is not called; when either resolver returns false the pair's
\* marker is not touched, no transfer runs for it, the options are as they
\* were, and the loop goes on to the next pair.
C13_AbortPairSkipsOnlyThisPair ==
  /\ hist.localRet = "false" <=> lower(hist.localRsp) = "a"
  /\ hist.remoteRet = "false" <=> lower(hist.remoteRsp) = "n"
  /\ lower(hist.localRsp) = "a" =>
       hist.remoteEntry = "none" /\ "remote" \notin hist.prompted
  /\ (lower(hist.localRsp) = "a" \/ lower(hist.remoteRsp) = "n") =>
       /\ ~hist.touched /\ tstamp[cur] = hist.marker0
       /\ hist.xfers = <<>>
       /\ cfg.sync = hist.syncAtStart
       /\ status \in {"running", "done"}
       /\ pc \in {"loop", "exit"}
       /\ (pc = "loop" /\ n < MaxPairs) => ENABLED StartPair

\* "a" answered while the remote-only list is non-empty, more pairs to come
W13_AbortedBeforeRemote ==
  /\ hist.localRsp = "A" /\ hist.localRet = "false"
  /\ hist.scanRemoteFile = "nonempty"
  /\ pc = "loop" /\ n < MaxPairs

\* C14: a pair that starts with syncMode false is never scanned and its
\* resolvers are never called; every transfer run while syncMode is false
\* is a copy.
C14_CopyModeExemptAndNeverMirrors ==
  /\ (n >= 1 /\ ~hist.syncAtStart) =>
       /\ ~hist.scanned
       /\ hist.localEntry = "none" /\ hist.remoteEntry = "none"
       /\ hist.prompted = {}
       /\ hist.localInput = "none" /\ hist.remoteInput = "none"
  /\ \A i \in DOMAIN hist.xfers :
       ~hist.xfers[i].sync => hist.xfers[i].op = "copy"

W14_CopyModePairDone ==
  /\ cur \in TwoWay /\ ~hist.syncAtStart
  /\ PairFinished
  /\ Len(hist.xfers) = 2

CheckPassed ==
  \/ cur \in BACKUP_ONLY
  \/ ~hist.syncAtStart
  \/ hist.localRet = "true" /\ hist.remoteRet = "true"

\* C15: the pair's marker is touched exactly when the conflict check passed
\* (or the pair was exempt) and --dryrun is off; the local-only resolver read
\* the marker's previous time, and every transfer of the pair starts after
\* the touch.
C15_MarkerOrdering ==
  n >= 1 =>
    /\ hist.touched => (CheckPassed /\ ~cfg.dryrun /\ tstamp[cur] = Now)
    /\ (CheckPassed /\ ~cfg.dryrun /\ pc # "touch") => hist.touched
    /\ ~hist.touched => tstamp[cur] = hist.marker0
    /\ hist.synctime # 0 => hist.synctime = hist.marker0
    /\ \A i \in DOMAIN hist.xfers :
         hist.xfers[i].marked = ~cfg.dryrun /\ CheckPassed

\* the marker is written, its old time was used for the stale list, and no
\* transfer has run yet
W15_TouchedBeforeUpload ==
  /\ pc = "upload" /\ hist.xfers = <<>>
  /\ hist.touched /\ tstamp[cur] = Now
  /\ hist.marker0 > 0 /\ hist.marker0 < Now
  /\ hist.stale # {}

\* C17 (as claimed): once a pair's conflict check has returned, neither list
\* file exists.
C17_ListFilesTransient ==
  (hist.scanned /\ (hist.localRet = "false" \/ hist.remoteRet # "none")) =>
    /\ ~only_local_file.exists
    /\ ~only_remote_file.exists

\* C18: a step removes a file of a local directory only as the delete
\* branch of the current pair's local-only prompt: the file is in the stale
\* list, the response is y or empty, --dryrun is off.  Every download is a
\* copy, and a transfer is a mirror exactly when syncMode is true and it is
\* an upload.
C18_LocalFilesOnlyDeletedByResolver ==
  /\ [][\A d \in TwoWay :
          ~(lfiles[d] \subseteq lfiles'[d]) =>
            /\ d = cur /\ pc = "local_prompt"
            /\ (lfiles[d] \ lfiles'[d]) \subseteq hist.stale
            /\ lower(hist'.localRsp) \in {"y", ""}
            /\ ~cfg.dryrun]_vars
  /\ [](\A i \in DOMAIN hist.xfers :
          /\ ~hist.xfers[i].upload => hist.xfers[i].op = "copy"
          /\ hist.xfers[i].op = "sync" <=>
               (hist.xfers[i].sync /\ hist.xfers[i].upload))

\* files were deleted on the user's default answer, then both transfers ran
\* in sync mode and the other files are still there
W18_DeletedThenTransferred ==
  /\ hist.deleted # {} /\ hist.localRsp = ""
  /\ Len(hist.xfers) = 2 /\ hist.xfers[2].sync
  /\ lfiles[cur] = hist.files0 \ hist.deleted
  /\ lfiles[cur] # {}

\* C20: at the local-only prompt a text outside y, n, a, q and empty (any
\* case) changes nothing and the prompt is shown again; the loop is left by
\* the first valid text, which alone decides: a returns false, q exits, n
\* keeps the files, y and empty delete the stale list (or print the notice
\* under --dryrun).
C20_LocalPromptLoop ==
  /\ [][(pc = "local_prompt"
         /\ lower(hist'.localInput) \notin {"y", "n", "a", "q", ""}) =>
          /\ pc' = "local_prompt"
          /\ UNCHANGED <<cfg, status, n, cur, tstamp, lfiles, ldirs,
                         only_local_file, only_remote_file, oldfiles>>
          /\ hist' = [hist EXCEPT !.localInput = hist'.localInput]]_vars
  /\ [](pc = "local_prompt" =>
          /\ lower(hist.localInput) \notin {"y", "n", "a", "q", ""}
          /\ hist.localRsp = "none" /\ hist.localRet = "none"
          /\ hist.deleted = {})
  /\ [](hist.localRsp # "none" =>
          /\ hist.localRsp = hist.localInput
          /\ lower(hist.localRsp) \in {"y", "n", "a", "q", ""}
          /\ lower(hist.localRsp) = "a" => hist.localRet = "false"
          /\ lower(hist.localRsp) = "q" => status = "sysexit"
          /\ lower(hist.localRsp) = "n" =>
               (hist.deleted = {} /\ ~hist.noop /\ hist.localRet = "true")
          /\ lower(hist.localRsp) \in {"y", ""} =>
               IF cfg.dryrun THEN hist.noop /\ hist.deleted = {}
               ELSE hist.deleted = hist.stale /\ ~hist.noop)

\* a rejected text: the resolver is still prompting
W20_Reprompted ==
  /\ pc = "local_prompt"
  /\ hist.localInput = "C"
  /\ hist.stale # {}

\* C16: a line ignored in the generic context is ignored in the check
\* context (the witness is a line ignored in the check context only).
C16_CheckIgnoresWhatGenericIgnores ==
  fout.generic = "ignored" => fout.check \in {"none", "ignored"}

W16_IgnoredInCheckOnly ==
  /\ fout.check = "ignored"
  /\ fout.generic = "printed"

\* the command with the simulate flag put after "-u" of the flag, nothing
\* else changed
WithSimulateFlag(c) == SubSeq(c, 1, 6) \o <<"n">> \o SubSeq(c, 7, Len(c))

\* C19 (as claimed): the command built under --dryrun is the command built
\* without it with only the simulate flag added: same operation, source and
\* destination, whatever the paths are.
C19_DryRunOnlyAddsFlag ==
  (fout.plain # <<>> /\ fout.dry # <<>>) =>
    fout.dry = WithSimulateFlag(fout.plain)
====
